---- MODULE Spec2Model ----
(***************************************************************************)
(* Verification model of GrowlyX/flighttracker.                            *)
(*                                                                         *)
(*   internal/provider/ratelimit.go  RateLimit (sliding-window limiter)    *)
(*   internal/provider/multi.go      MultiProvider (waterfall aggregator)  *)
(*   internal/tracker/tracker.go     Tracker (poll loop, back-fill, State) *)
(*   internal/ui (Game)              Update, deadReckon (display, trail)   *)
(*                                                                         *)
(* Time is a discrete clock `now` (one unit = one clock tick); every       *)
(* time.Now() of the code reads it.  Durations are differences of clock    *)
(* values.                                                                 *)
(***************************************************************************)
EXTENDS Integers, Sequences, FiniteSets, TLC

\* ------------------------------------------------------------------ bounds
MaxTime == 4
MaxWindow == 2
MaxReqsBound == 3
MaxRecords == 4
MaxDrift == 1
NumThreads == 2
NumProviders == 3
MaxFlights == 2
MaxSessions == 2
MaxHead == 2
CapMax == 2
MaxList == 13
MaxTicks == 3
MaxElapsed == 32
TrailStart == 5997
MaxTrailTicks == 6100

Threads == 1..NumThreads

VARIABLES
    now,        \* the wall/monotonic clock read by time.Now()
    window,     \* RateLimit.window
    maxReqs,    \* RateLimit.maxReqs
    requests,   \* RateLimit.requests: timestamps, oldest first
    recorded,   \* history: every timestamp Record ever appended
    pc,         \* per caller: "idle", or "allowed" right after Allow() = true
    ret,        \* the last value a RateLimit method returned
    waited,     \* history: the last WaitDuration() answer of a full limiter
    capObs,     \* history: the last CapacityPct() reading
    capRise,    \* history: a CapacityPct() reading that rose, see CapacityPct
    activeIdx,  \* MultiProvider.activeIdx
    mpc,        \* the aggregator call in progress: "idle", "near", "done"
    beh,        \* what each provider answers when invoked during this call
    idx,        \* the loop index i of the call in progress
    lastErr,    \* the local lastErr of the call in progress
    invoked,    \* history: the providers invoked by this call, in order
    result,     \* what the last GetFlightsNear call returned
    limited,    \* the providers whose rate limiter answers Allow() = false in this round
    capLeft,    \* per provider, what its limiter's Remaining() answers in this round, of CapMax
    ppc,        \* the GetFlightPosition call in progress: "idle", "first", "loop", "done"
    pbeh,       \* what each provider answers to GetFlightPosition during this call
    pidx,       \* the fallback loop index i of the GetFlightPosition call
    pLastErr,   \* the local lastErr of the GetFlightPosition call
    pInvoked,   \* history: the providers invoked by this GetFlightPosition call
    presult,    \* what the last GetFlightPosition call returned
    lastNear,   \* history: the provider made active by a GetFlightsNear call, if that call is the last one finished, else -1
    nprov,      \* len(m.providers): the list holds the providers 0 .. nprov - 1
    pAfter,     \* history: the value of lastNear when this GetFlightPosition call was entered
    tpc,        \* the tracker goroutine: "discover", "publish" or "poll"
    direction,  \* Tracker.direction
    consecutiveErrors, \* the local counter of pollUntilComplete
    flightObjs, \* the Flight objects found so far, one per tracking session, by session number
    sessions,   \* history: per session its direction, how it ended, and how far its readings follow the example
    back,       \* the back-fill goroutine of each session: its position ("none" when it is not running) and its copy of the state
    tstate,     \* Tracker.state
    provCall,   \* history: the outcome of the tracker's latest provider call
    snap,       \* the State a reader got from its latest GetState call
    snapType,   \* history: the AircraftType the reader could reach through snap when it got it
    polledSince, \* history: the poll loop has acted since the reader's latest GetState call
    nearList,   \* the flights a GetFlightsNear call returned to findEnRouteFlight
    picked,     \* the index in nearList of the flight findEnRouteFlight returned: 0 for nil, -1 before it ran
    published,  \* what Tracker.GetState returns to the display: the Flight's FlightID and the Position
    g,          \* the Game: its dead-reckoning, animation and trail fields
    hist        \* history of the display: the State the latest Update saw, the number of Updates that found a position, the projection the latest made, and where the headings of the Game came from

rlRest == <<window, maxReqs, requests, recorded, pc, ret, waited, capObs, capRise>>

rlVars == <<now, rlRest>>

nearVars == <<mpc, beh, idx, lastErr, invoked, result, limited, capLeft>>

gpVars == <<ppc, pbeh, pidx, pLastErr, pInvoked, presult, pAfter>>

mpVars == <<activeIdx, nearVars, gpVars, lastNear, nprov>>

loopVars == <<tpc, direction, consecutiveErrors, flightObjs, sessions, back, tstate,
              provCall, snap, snapType, polledSince>>

selVars == <<nearList, picked>>

uiVars == <<published, g, hist>>

trVars == <<loopVars, selVars, uiVars>>

vars == <<rlVars, mpVars, trVars>>

\* ------------------------------------------------------------ RateLimit
NoRet == [op |-> "none", val |-> 0, den |-> 1, at |-> 0, at2 |-> 0, panic |-> FALSE]

Ret(op, val, den, at, at2, panic) ==
    [op |-> op, val |-> val, den |-> den, at |-> at, at2 |-> at2, panic |-> panic]

\* prune cutting also the timestamps that are exactly at the cutoff.
prune_DropsBoundary(reqs, t) ==
    LET cutoff == t - window
        i == CHOOSE k \in 0..Len(reqs) :
                /\ \A j \in 1..k : reqs[j] <= cutoff
                /\ (k < Len(reqs) => ~(reqs[k + 1] <= cutoff))
    IN  IF i > 0 THEN SubSeq(reqs, i + 1, Len(reqs)) ELSE reqs

\* prune: i counts the leading timestamps that are Before(cutoff); the slice
\* is cut at the first timestamp that is not.
prune(reqs, t) ==
    LET cutoff == t - window
        i == CHOOSE k \in 0..Len(reqs) :
                /\ \A j \in 1..k : reqs[j] < cutoff
                /\ (k < Len(reqs) => ~(reqs[k + 1] < cutoff))
    IN  IF i > 0 THEN SubSeq(reqs, i + 1, Len(reqs)) ELSE reqs

\* Allow with the comparison off by one.
AllowResult_AtLimit(reqs) == Len(reqs) <= maxReqs

\* Allow's return value on the pruned slice.
AllowResult(reqs) == Len(reqs) < maxReqs

\* Remaining without the clamp at zero.
RemainingResult_Unclamped(reqs) == maxReqs - Len(reqs)

\* Remaining's return value on the pruned slice.
RemainingResult(reqs) ==
    LET rem == maxReqs - Len(reqs)
    IN  IF rem < 0 THEN 0 ELSE rem

\* CapacityPct returning the used share instead of the remaining one.
CapacityPctResult_Used(reqs) ==
    IF maxReqs = 0 THEN [num |-> 0, den |-> 1]
    ELSE [num |-> Len(reqs), den |-> maxReqs]

\* CapacityPct's return value on the pruned slice, as the fraction num/den.
CapacityPctResult(reqs) ==
    IF maxReqs = 0 THEN [num |-> 0, den |-> 1]
    ELSE [num |-> maxReqs - Len(reqs), den |-> maxReqs]

\* NewRateLimit: the zero value of every other field.
NewRateLimit(maxR, w) ==
    /\ window = w
    /\ maxReqs = maxR
    /\ requests = << >>

\* NewMultiProvider leaves activeIdx at its zero value; no call is in
\* progress.
InitCalls ==
    /\ activeIdx = 0
    /\ mpc = "idle"
    /\ beh = [i \in 0..(NumProviders - 1) |-> [err |-> [set |-> FALSE, prov |-> 0], flights |-> << >>]]
    /\ idx = 0
    /\ lastErr = [set |-> FALSE, prov |-> 0]
    /\ invoked = << >>
    /\ result = [flights |-> << >>, err |-> [set |-> FALSE, prov |-> 0]]
    /\ limited = {}
    /\ capLeft = [i \in 0..(NumProviders - 1) |-> CapMax]
    /\ ppc = "idle"
    /\ pbeh = [i \in 0..(NumProviders - 1) |-> "err"]
    /\ pidx = 0
    /\ pLastErr = [set |-> FALSE, prov |-> 0]
    /\ pInvoked = << >>
    /\ presult = [ok |-> FALSE, prov |-> 0, err |-> [set |-> FALSE, prov |-> 0]]
    /\ lastNear = -1
    /\ pAfter = -1

\* An aggregator built over the whole list of providers.
InitMP ==
    /\ InitCalls
    /\ nprov = NumProviders

\* The zero State of a new Tracker: no flight, no position, the zero
\* direction, no error, the zero time.
NoPos == [alt |-> 0, far |-> FALSE, sess |-> 0]

ZeroState == [flight |-> 0, pos |-> NoPos, dir |-> "Arriving", error |-> "", updatedAt |-> -1]

NoCall == [kind |-> "none", ok |-> FALSE, err |-> "", alt |-> 0, far |-> FALSE, sess |-> 0]

\* A nil *FlightPosition; a nil Heading of a position.
NilPos == [set |-> FALSE, lat |-> 0, lon |-> 0, gs |-> 0, alt |-> 0, hdg |-> -1]

NilHeading == -1

NoProj == [set |-> FALSE, lat |-> 0, lon |-> 0, at |-> 0]

\* The Game as NewGame leaves it: every field read by Update has its zero
\* value.
NewGame ==
    [anchorLat |-> 0, anchorLon |-> 0, anchorTime |-> 0,
     interpLat |-> 0, interpLon |-> 0, drSpeed |-> 0, drHeading |-> 0,
     hasAnchor |-> FALSE, lastFlightID |-> "",
     animSpeed |-> 0, animAltitude |-> 0, animHeading |-> 0,
     trailPoints |-> << >>, trailTick |-> 0]

NoHist ==
    [seen |-> [flight |-> "", pos |-> NilPos], updates |-> 0, proj |-> NoProj,
     drHeadingOf |-> "", animHeadingOf |-> ""]

\* A new Game beside a tracker that has published nothing.
InitGame ==
    /\ published = [flight |-> "", pos |-> NilPos]
    /\ g = NewGame
    /\ hist = NoHist

InitTracker ==
    /\ tpc = "discover"
    /\ direction = "Departing"
    /\ consecutiveErrors = 0
    /\ flightObjs = << >>
    /\ sessions = << >>
    /\ back = << >>
    /\ tstate = ZeroState
    /\ provCall = NoCall
    /\ snap = [taken |-> FALSE, state |-> ZeroState]
    /\ snapType = ""
    /\ polledSince = FALSE
    /\ nearList = << >>
    /\ picked = -1

InitRL ==
    /\ InitMP
    /\ InitTracker
    /\ InitGame
    /\ now = 0
    /\ \E maxR \in 0..MaxReqsBound, w \in 1..MaxWindow : NewRateLimit(maxR, w)
    /\ recorded = << >>
    /\ pc = [t \in Threads |-> "idle"]
    /\ ret = NoRet
    /\ waited = [due |-> -1, nrec |-> 0]
    /\ capObs = [num |-> 0, at |-> -1, n |-> 0, r |-> -1]
    /\ capRise = -1

Alive == ~ret.panic

\* The clock advances between calls.
Tick ==
    /\ Alive
    /\ now < MaxTime
    /\ now' = now + 1
    /\ UNCHANGED <<window, maxReqs, requests, recorded, pc, ret, waited, capObs, capRise>>
    /\ UNCHANGED <<mpVars, trVars>>

Allow(t) ==
    /\ Alive
    /\ requests' = prune(requests, now)
    /\ ret' = Ret("Allow", IF AllowResult(requests') THEN 1 ELSE 0, 1, now, now, FALSE)
    /\ pc' = [pc EXCEPT ![t] = IF AllowResult(requests') THEN "allowed" ELSE "idle"]
    /\ UNCHANGED <<now, window, maxReqs, recorded, waited, capObs, capRise>>
    /\ UNCHANGED <<mpVars, trVars>>

\* Record appends time.Now(); it neither prunes nor checks the limit.
RecordAppend(reqs, t) == Append(reqs, t)

\* Record by a caller that honors Allow: only directly after Allow() = true.
Record(t) ==
    /\ Alive
    /\ pc[t] = "allowed"
    /\ Len(recorded) < MaxRecords
    /\ requests' = RecordAppend(requests, now)
    /\ recorded' = Append(recorded, now)
    /\ pc' = [pc EXCEPT ![t] = "idle"]
    /\ ret' = Ret("Record", 0, 1, now, now, FALSE)
    /\ UNCHANGED <<now, window, maxReqs, waited, capObs, capRise>>
    /\ UNCHANGED <<mpVars, trVars>>

\* Record without a preceding successful Allow (optimistic recording).
RecordAny ==
    /\ Alive
    /\ Len(recorded) < MaxRecords
    /\ requests' = RecordAppend(requests, now)
    /\ recorded' = Append(recorded, now)
    /\ ret' = Ret("Record", 0, 1, now, now, FALSE)
    /\ UNCHANGED <<now, window, maxReqs, pc, waited, capObs, capRise>>
    /\ UNCHANGED <<mpVars, trVars>>

Remaining(t) ==
    /\ Alive
    /\ requests' = prune(requests, now)
    /\ ret' = Ret("Remaining", RemainingResult(requests'), 1, now, now, FALSE)
    /\ pc' = [pc EXCEPT ![t] = "idle"]
    /\ UNCHANGED <<now, window, maxReqs, recorded, waited, capObs, capRise>>
    /\ UNCHANGED <<mpVars, trVars>>

\* The timestamp of the latest Record so far, -1 when there is none.
LastRecorded == IF Len(recorded) > 0 THEN recorded[Len(recorded)] ELSE -1

\* capObs remembers this reading (num, the instant, the number of Records made
\* so far and the latest of them).  capRise remembers, when this reading is
\* higher than the previous one and a Record preceded the previous one, the
\* timestamp of that Record (the latest such timestamp over the run).
CapacityPct(t) ==
    /\ Alive
    /\ requests' = prune(requests, now)
    /\ LET c == CapacityPctResult(requests')
       IN  /\ ret' = Ret("CapacityPct", c.num, c.den, now, now, FALSE)
           /\ capObs' = [num |-> c.num, at |-> now, n |-> Len(recorded), r |-> LastRecorded]
           /\ capRise' = IF capObs.r >= 0 /\ c.num > capObs.num /\ capObs.r > capRise
                         THEN capObs.r ELSE capRise
    /\ pc' = [pc EXCEPT ![t] = "idle"]
    /\ UNCHANGED <<now, window, maxReqs, recorded, waited>>
    /\ UNCHANGED <<mpVars, trVars>>

\* WaitDuration reads the clock twice: in prune and in time.Until; the
\* second read is `drift` ticks later.  requests[0] of an empty slice is an
\* index-out-of-range panic.  waited remembers the answer of a full limiter:
\* the instant the answer points at and the number of Records made so far.
WaitDurationResult(reqs, t2) ==
    IF Len(reqs) < maxReqs THEN 0
    ELSE LET oldest == reqs[1]
             wait == (oldest + window) - t2
         IN  IF wait < 0 THEN 0 ELSE wait

WaitDuration(t) ==
    /\ Alive
    /\ \E drift \in 0..MaxDrift :
        /\ now + drift <= MaxTime
        /\ now' = now + drift
        /\ requests' = prune(requests, now)
        /\ IF ~(Len(requests') < maxReqs) /\ Len(requests') = 0
           THEN /\ ret' = Ret("WaitDuration", 0, 1, now, now', TRUE)
                /\ UNCHANGED waited
           ELSE /\ ret' = Ret("WaitDuration", WaitDurationResult(requests', now'), 1, now, now', FALSE)
                /\ waited' = IF AllowResult(requests')
                             THEN waited
                             ELSE [due |-> now' + WaitDurationResult(requests', now'),
                                   nrec |-> Len(recorded)]
    /\ pc' = [pc EXCEPT ![t] = "idle"]
    /\ UNCHANGED <<window, maxReqs, recorded, capObs, capRise>>
    /\ UNCHANGED <<mpVars, trVars>>

\* One caller that records only directly after a successful Allow.
NextSingle ==
    \/ Tick
    \/ Allow(1)
    \/ Record(1)
    \/ WaitDuration(1)

SpecSingle == InitRL /\ [][NextSingle]_vars

\* Several goroutines sharing one limiter, each honoring Allow.
NextConc ==
    \/ Tick
    \/ \E t \in Threads : Allow(t)
    \/ \E t \in Threads : Record(t)

SpecConc == InitRL /\ [][NextConc]_vars

\* Any caller, including Record without Allow.
NextRL ==
    \/ Tick
    \/ Allow(1)
    \/ Record(1)
    \/ RecordAny
    \/ Remaining(1)
    \/ WaitDuration(1)

SpecRL == InitRL /\ [][NextRL]_vars

\* Any caller reading the capacity, including Record without Allow.
NextCap ==
    \/ Tick
    \/ RecordAny
    \/ Remaining(1)
    \/ CapacityPct(1)

SpecCap == InitRL /\ [][NextCap]_vars

\* --------------------------------------------------------- MultiProvider
Providers == 0..(NumProviders - 1)

NilErr == [set |-> FALSE, prov |-> 0]

\* The error provider i returns.
ErrOf(i) == [set |-> TRUE, prov |-> i]

\* A list of n flights as provider i returns them.
FlightsOf(i, n) == [k \in 1..n |-> [prov |-> i, k |-> k]]

\* What provider i answers to GetFlightsNear: (nil, err) for n < 0, otherwise
\* (flights, nil) with n flights, n = 0 included.
NearAnswer(i, n) ==
    IF n < 0 THEN [err |-> ErrOf(i), flights |-> << >>]
    ELSE [err |-> NilErr, flights |-> FlightsOf(i, n)]

NoResult == [flights |-> << >>, err |-> NilErr]

\* The loop body without the zero-flights branch.
wins_AnySuccess(flights, err) == ~err.set

\* The loop body without the early return.
wins_Never(flights, err) == FALSE

\* The test of the loop body on a provider's answer: neither the error
\* branch nor the zero-flights branch was taken.
wins(flights, err) == ~err.set /\ Len(flights) # 0

\* `lastErr = err` in the error branch keeps only the first error.
recordErr_KeepFirst(prev, err) == IF err.set /\ ~prev.set THEN err ELSE prev

\* The value of lastErr after a provider's answer: the error branch
\* overwrites it, the other branches leave it alone.
recordErr(prev, err) == IF err.set THEN err ELSE prev

\* GetFlightsNear is entered; the providers' answers for the round are
\* fixed.
GetFlightsNearEnter ==
    /\ mpc = "idle"
    /\ \E n \in [Providers -> -1..MaxFlights] :
          beh' = [i \in Providers |-> NearAnswer(i, n[i])]
    /\ mpc' = "near"
    /\ idx' = 0
    /\ lastErr' = NilErr
    /\ invoked' = << >>
    /\ result' = NoResult
    /\ UNCHANGED <<activeIdx, limited, capLeft, lastNear>>
    /\ UNCHANGED gpVars
    /\ UNCHANGED <<nprov, rlVars, trVars>>

\* GetFlightsNear as the tracker goroutine calls it: no other aggregator
\* call of that goroutine is in progress.
GetFlightsNearCall ==
    /\ ppc = "idle"
    /\ GetFlightsNearEnter

\* One iteration of `for i, p := range m.providers`: p is invoked, then the
\* error branch, the zero-flights branch or the return.
GetFlightsNearIter ==
    /\ mpc = "near"
    /\ idx < nprov
    /\ invoked' = Append(invoked, idx)
    /\ LET flights == beh[idx].flights
           err == beh[idx].err
       IN  IF wins(flights, err)
           THEN /\ activeIdx' = idx
                /\ result' = [flights |-> flights, err |-> NilErr]
                /\ mpc' = "done"
                /\ lastNear' = idx
                /\ UNCHANGED <<idx, lastErr>>
           ELSE /\ lastErr' = recordErr(lastErr, err)
                /\ idx' = idx + 1
                /\ UNCHANGED <<activeIdx, result, mpc, lastNear>>
    /\ UNCHANGED <<beh, limited, capLeft>>
    /\ UNCHANGED gpVars
    /\ UNCHANGED <<nprov, rlVars, trVars>>

\* The loop ran out of providers: the wrapped last error, or (nil, nil).
GetFlightsNearExhausted ==
    /\ mpc = "near"
    /\ idx = nprov
    /\ result' = [flights |-> << >>, err |-> lastErr]
    /\ mpc' = "done"
    /\ lastNear' = -1
    /\ UNCHANGED <<activeIdx, beh, idx, lastErr, invoked, limited, capLeft>>
    /\ UNCHANGED gpVars
    /\ UNCHANGED <<nprov, rlVars, trVars>>

\* The caller has taken the result: the call's locals are gone.
GetFlightsNearReturn ==
    /\ mpc = "done"
    /\ mpc' = "idle"
    /\ beh' = [i \in Providers |-> NearAnswer(i, 0)]
    /\ idx' = 0
    /\ lastErr' = NilErr
    /\ invoked' = << >>
    /\ result' = NoResult
    /\ UNCHANGED <<activeIdx, limited, capLeft, lastNear>>
    /\ UNCHANGED gpVars
    /\ UNCHANGED <<nprov, rlVars, trVars>>

\* Between two rounds the providers' limiters fill up or drain: each has any
\* number of requests left, and those with none left refuse the next round.
LimitersChange ==
    /\ mpc = "idle"
    /\ \E c \in [Providers -> 0..CapMax] : capLeft' = c
    /\ capLeft' # capLeft
    /\ limited' = {i \in Providers : capLeft'[i] = 0}
    /\ UNCHANGED <<activeIdx, mpc, beh, idx, lastErr, invoked, result, lastNear>>
    /\ UNCHANGED gpVars
    /\ UNCHANGED <<nprov, rlVars, trVars>>

\* What a provider may answer to GetFlightPosition: (nil, err), (pos, nil)
\* or (nil, nil).
PosAnswers == {"err", "pos", "nil"}

\* The error of fmt.Errorf("no position available"): it wraps no provider's
\* error.
NoPositionErr == [set |-> TRUE, prov |-> NumProviders]

NoPosResult == [ok |-> FALSE, prov |-> 0, err |-> NilErr]

\* `return pos, nil` with the position provider i supplied.
PosResult(i) == [ok |-> TRUE, prov |-> i, err |-> NilErr]

\* The first attempt goes to the head of the list.
firstAttempt_Head(active) == 0

\* The provider the first attempt goes to: m.providers[m.activeIdx].
firstAttempt(active) == active

\* The fallback loop passes over no provider.
skips_None(i, active) == FALSE

\* The test that makes the fallback loop pass over a provider.
skips(i, active) == i = active

\* GetFlightPosition is entered; the providers' answers for the call are
\* fixed.
GetFlightPositionEnter ==
    /\ ppc = "idle"
    /\ \E b \in [Providers -> PosAnswers] : pbeh' = b
    /\ ppc' = "first"
    /\ pidx' = 0
    /\ pLastErr' = NilErr
    /\ pInvoked' = << >>
    /\ presult' = NoPosResult
    /\ pAfter' = lastNear
    /\ lastNear' = -1
    /\ UNCHANGED activeIdx
    /\ UNCHANGED nearVars
    /\ UNCHANGED <<nprov, rlVars, trVars>>

\* GetFlightPosition as the tracker goroutine calls it: no other aggregator
\* call of that goroutine is in progress.
GetFlightPositionCall ==
    /\ mpc = "idle"
    /\ GetFlightPositionEnter

\* The first attempt: the active provider is asked, and its position is
\* returned if it has one; otherwise the call goes on to the fallback loop.
GetFlightPositionFirst ==
    /\ ppc = "first"
    /\ IF activeIdx < nprov
       THEN LET p == firstAttempt(activeIdx)
            IN  /\ pInvoked' = Append(pInvoked, p)
                /\ IF pbeh[p] = "pos"
                   THEN /\ presult' = PosResult(p)
                        /\ ppc' = "done"
                   ELSE /\ ppc' = "loop"
                        /\ UNCHANGED presult
       ELSE /\ ppc' = "loop"
            /\ UNCHANGED <<pInvoked, presult>>
    /\ UNCHANGED <<pbeh, pidx, pLastErr, pAfter, lastNear>>
    /\ UNCHANGED activeIdx
    /\ UNCHANGED nearVars
    /\ UNCHANGED <<nprov, rlVars, trVars>>

\* One iteration of the fallback loop: the provider at the active index, as
\* the index reads now, is passed over; any other is invoked.
GetFlightPositionIter ==
    /\ ppc = "loop"
    /\ pidx < nprov
    /\ IF skips(pidx, activeIdx)
       THEN /\ pidx' = pidx + 1
            /\ UNCHANGED <<pInvoked, pLastErr, presult, ppc, activeIdx>>
       ELSE /\ pInvoked' = Append(pInvoked, pidx)
            /\ IF pbeh[pidx] = "err"
               THEN /\ pLastErr' = ErrOf(pidx)
                    /\ pidx' = pidx + 1
                    /\ UNCHANGED <<presult, ppc, activeIdx>>
               ELSE IF pbeh[pidx] = "pos"
               THEN /\ activeIdx' = pidx
                    /\ presult' = PosResult(pidx)
                    /\ ppc' = "done"
                    /\ UNCHANGED <<pidx, pLastErr>>
               ELSE /\ pidx' = pidx + 1
                    /\ UNCHANGED <<pLastErr, presult, ppc, activeIdx>>
    /\ UNCHANGED <<pbeh, pAfter, lastNear>>
    /\ UNCHANGED nearVars
    /\ UNCHANGED <<nprov, rlVars, trVars>>

\* The end of GetFlightPosition written as that of GetFlightsNear: no error
\* when no provider returned one.
exhaustedErr_NilWhenNone(last) == last

\* What GetFlightPosition returns as error after the fallback loop: the
\* wrapped last error, or "no position available" when there is none.
exhaustedErr(last) == IF last.set THEN last ELSE NoPositionErr

\* The fallback loop ran out of providers: the wrapped last error, or "no
\* position available".
GetFlightPositionExhausted ==
    /\ ppc = "loop"
    /\ pidx = nprov
    /\ presult' = [ok |-> FALSE, prov |-> 0, err |-> exhaustedErr(pLastErr)]
    /\ ppc' = "done"
    /\ UNCHANGED <<pbeh, pidx, pLastErr, pInvoked, pAfter, lastNear>>
    /\ UNCHANGED activeIdx
    /\ UNCHANGED nearVars
    /\ UNCHANGED <<nprov, rlVars, trVars>>

\* The caller has taken the result: the call's locals are gone.
GetFlightPositionReturn ==
    /\ ppc = "done"
    /\ ppc' = "idle"
    /\ pbeh' = [i \in Providers |-> "err"]
    /\ pidx' = 0
    /\ pLastErr' = NilErr
    /\ pInvoked' = << >>
    /\ presult' = NoPosResult
    /\ pAfter' = -1
    /\ UNCHANGED <<activeIdx, lastNear>>
    /\ UNCHANGED nearVars
    /\ UNCHANGED <<nprov, rlVars, trVars>>

InitMulti ==
    /\ InitMP
    /\ InitTracker
    /\ InitGame
    /\ now = 0
    /\ NewRateLimit(0, 1)
    /\ recorded = << >>
    /\ pc = [t \in Threads |-> "idle"]
    /\ ret = NoRet
    /\ waited = [due |-> -1, nrec |-> 0]
    /\ capObs = [num |-> 0, at |-> -1, n |-> 0, r |-> -1]
    /\ capRise = -1

NextMulti ==
    \/ GetFlightsNearCall
    \/ GetFlightsNearIter
    \/ GetFlightsNearExhausted
    \/ GetFlightsNearReturn
    \/ GetFlightPositionCall
    \/ GetFlightPositionFirst
    \/ GetFlightPositionIter
    \/ GetFlightPositionExhausted
    \/ GetFlightPositionReturn

SpecMulti == InitMulti /\ [][NextMulti]_vars

\* An aggregator built over any leading part of the list, the empty one
\* included: NewMultiProvider takes whatever providers it is given.
InitMultiAny ==
    /\ InitCalls
    /\ \E n \in 0..NumProviders : nprov = n
    /\ InitTracker
    /\ InitGame
    /\ now = 0
    /\ NewRateLimit(0, 1)
    /\ recorded = << >>
    /\ pc = [t \in Threads |-> "idle"]
    /\ ret = NoRet
    /\ waited = [due |-> -1, nrec |-> 0]
    /\ capObs = [num |-> 0, at |-> -1, n |-> 0, r |-> -1]
    /\ capRise = -1

SpecMultiAny == InitMultiAny /\ [][NextMulti]_vars

\* GetFlightsNear rounds with limiters that refuse between them.
NextMultiLimited ==
    \/ LimitersChange
    \/ GetFlightsNearCall
    \/ GetFlightsNearIter
    \/ GetFlightsNearExhausted
    \/ GetFlightsNearReturn

SpecMultiLimited == InitMulti /\ [][NextMultiLimited]_vars

\* Two goroutines share the aggregator: one calls GetFlightsNear while the
\* other calls GetFlightPosition, and their steps interleave.
NextMultiConc ==
    \/ GetFlightsNearEnter
    \/ GetFlightsNearIter
    \/ GetFlightsNearExhausted
    \/ GetFlightsNearReturn
    \/ GetFlightPositionEnter
    \/ GetFlightPositionFirst
    \/ GetFlightPositionIter
    \/ GetFlightPositionExhausted
    \/ GetFlightPositionReturn

SpecMultiConc == InitMulti /\ [][NextMultiConc]_vars

\* --------------------------------------------------------------- Tracker
maxErrors == 30

Directions == {"Departing", "Arriving"}

\* The messages a provider error may carry.
ErrMsgs == {"timeout", "refused"}

\* FlightID values: an ICAO24 hex code, and a lookup key of another shape.
FlightIDs == {"a0b1c2", "UAL5"}

\* AircraftType as a provider fills it in: absent or present.
AircraftTypes == {"", "B738"}

\* What the hexdb lookup ends with: "" stands for every return before the
\* type is stored (request error, HTTP status, decode error, empty code).
LookupResults == {"", "A359"}

\* Altitudes a position may carry, in hundreds of feet.
Altitudes == {0, 10, 40, 50, 80, 100, 120}

\* The readings of the two example sessions.
Example(dir) == IF dir = "Departing" THEN <<50, 80, 120>> ELSE <<40, 10, 0>>

\* The session being tracked: the latest one found.
cur == Len(sessions)

\* setState keeping the Error of the State it replaces.
setState_KeepsError(f, p, d) ==
    [flight |-> f, pos |-> p, dir |-> d, error |-> tstate.error, updatedAt |-> now]

\* setState keeping the Position of the State it replaces.
setState_KeepsPosition(f, p, d) ==
    [flight |-> f, pos |-> tstate.pos, dir |-> d, error |-> "", updatedAt |-> now]

\* setState: the given State, stamped with the time, replaces t.state.
setState(f, p, d) == [flight |-> f, pos |-> p, dir |-> d, error |-> "", updatedAt |-> now]

\* setError replacing the State by one that holds only the error.
setError_FreshState(st, e) ==
    [flight |-> 0, pos |-> NoPos, dir |-> "Arriving", error |-> e, updatedAt |-> now]

\* setError: only Error and UpdatedAt of t.state change.
setError(st, e) == [st EXCEPT !.error = e, !.updatedAt = now]

\* Every successful poll completes the session.
completes_Always(dir, alt) == TRUE

\* The direction-dependent completion test of pollUntilComplete.
completes(dir, alt) ==
    \/ dir = "Departing" /\ alt > 100
    \/ dir = "Arriving" /\ alt <= 0

\* The distance test is missing: only the altitude ends a session.
sessionEnds_AltitudeOnly(dir, alt, far) == completes(dir, alt)

\* pollUntilComplete returns true on this sample: the aircraft is beyond the
\* maximum distance, or the completion test of the direction holds.
sessionEnds(dir, alt, far) == far \/ completes(dir, alt)

\* runCycle without the second assignment.
nextDirection_Same(dir) == dir

\* The direction of the trackNextFlight call that follows a completed one in
\* Run and runCycle.
nextDirection(dir) == IF dir = "Departing" THEN "Arriving" ELSE "Departing"

\* trackNextFlight returns whatever pollUntilComplete reported.
resumeDirection_Flips(dir, completed) == nextDirection(dir)

\* The direction in which discovery resumes once pollUntilComplete has
\* returned: trackNextFlight returns to runCycle on a completed session and
\* loops on a lost one.
resumeDirection(dir, completed) == IF completed THEN nextDirection(dir) ELSE dir

\* The loop ends at the error ceiling.
afterError_Stops(n) == IF n >= maxErrors THEN "stopped" ELSE "poll"

\* Where the tracker goes after a position error: on to the next tick, or at
\* the ceiling back to the discovery loop of trackNextFlight.
afterError(n) == IF n >= maxErrors THEN "discover" ELSE "poll"

\* The outcome of a provider call, as the tracker sees it.
CallErr(kind, e) == [kind |-> kind, ok |-> FALSE, err |-> e, alt |-> 0, far |-> FALSE, sess |-> 0]

CallOk(kind, alt, far, s) == [kind |-> kind, ok |-> TRUE, err |-> "", alt |-> alt, far |-> far, sess |-> s]

\* How far the readings of a session follow the example once alt is read;
\* -1 once they have left it. A session that ends keeps the count only if it
\* followed the example to its end.
scriptNext(sc, dir, alt, far, ends) ==
    LET n == IF sc >= 0 /\ sc < Len(Example(dir)) /\ ~far /\ alt = Example(dir)[sc + 1]
             THEN sc + 1 ELSE -1
    IN  IF ends /\ n # Len(Example(dir)) THEN -1 ELSE n

\* The sessions whose Flight object some goroutine or some State still
\* points to.
Reachable ==
    {tstate.flight, snap.state.flight}
        \cup {s \in DOMAIN back : back[s].pc # "none"}
        \cup {back[s].state.flight : s \in DOMAIN back}

DeadFlight == [id |-> "", type |-> ""]

\* The Flight objects with the unreachable ones reclaimed.
Collect(objs) == [s \in DOMAIN objs |-> IF s \in Reachable THEN objs[s] ELSE DeadFlight]

\* The history keeps the example count of its latest session only (of the
\* latest two once the next session is appended).
Older(ss) == [s \in DOMAIN ss |-> IF s < Len(ss) THEN [ss[s] EXCEPT !.script = -1] ELSE ss[s]]

\* findEnRouteFlight: GetFlightsNear fails, the error is published.
DiscoverErr(e) ==
    /\ tpc = "discover"
    /\ tstate' = setError(tstate, e)
    /\ provCall' = CallErr("near", e)
    /\ polledSince' = TRUE
    /\ UNCHANGED <<tpc, direction, consecutiveErrors, flightObjs, sessions, back, snap, snapType>>
    /\ UNCHANGED <<rlVars, mpVars, selVars, uiVars>>

\* findEnRouteFlight: no candidate is left; the loop sleeps and retries.
DiscoverNone ==
    /\ tpc = "discover"
    /\ provCall' = CallOk("near", 0, FALSE, 0)
    /\ polledSince' = TRUE
    /\ UNCHANGED <<tpc, direction, consecutiveErrors, flightObjs, sessions, back, tstate, snap, snapType>>
    /\ UNCHANGED <<rlVars, mpVars, selVars, uiVars>>

\* findEnRouteFlight returns a flight: a session begins, and the back-fill
\* goroutine is started if the flight has an ID but no aircraft type.
DiscoverFlight(id, ty) ==
    /\ tpc = "discover"
    /\ Len(sessions) < MaxSessions
    /\ flightObjs' = Append(Collect(flightObjs), [id |-> id, type |-> ty])
    /\ sessions' = Append(Older(sessions), [dir |-> direction, end |-> "running", script |-> 0])
    /\ back' = Append(back, [pc |-> IF ty = "" /\ id # "" THEN "start" ELSE "none",
                             state |-> ZeroState])
    /\ provCall' = CallOk("near", 0, FALSE, Len(sessions) + 1)
    /\ polledSince' = TRUE
    /\ tpc' = "publish"
    /\ UNCHANGED <<direction, consecutiveErrors, tstate, snap, snapType>>
    /\ UNCHANGED <<rlVars, mpVars, selVars, uiVars>>

\* trackNextFlight publishes the flight without a position and enters
\* pollUntilComplete.
Publish ==
    /\ tpc = "publish"
    /\ tstate' = setState(cur, NoPos, direction)
    /\ consecutiveErrors' = 0
    /\ polledSince' = TRUE
    /\ tpc' = "poll"
    /\ UNCHANGED <<direction, flightObjs, sessions, back, provCall, snap, snapType>>
    /\ UNCHANGED <<rlVars, mpVars, selVars, uiVars>>

\* A tick of pollUntilComplete on which GetFlightPosition fails.
PollErr(e) ==
    /\ tpc = "poll"
    /\ consecutiveErrors' = consecutiveErrors + 1
    /\ tstate' = setError(tstate, e)
    /\ provCall' = CallErr("pos", e)
    /\ polledSince' = TRUE
    /\ tpc' = afterError(consecutiveErrors')
    /\ sessions' = IF consecutiveErrors' >= maxErrors
                   THEN [sessions EXCEPT ![cur].end = "lost", ![cur].script = -1]
                   ELSE sessions
    /\ direction' = IF consecutiveErrors' >= maxErrors
                    THEN resumeDirection(direction, FALSE)
                    ELSE direction
    /\ UNCHANGED <<flightObjs, back, snap, snapType>>
    /\ UNCHANGED <<rlVars, mpVars, selVars, uiVars>>

\* A tick of pollUntilComplete on which GetFlightPosition answers: the
\* distance test, the completion tests, the publication.
PollPos(alt, far) ==
    /\ tpc = "poll"
    /\ consecutiveErrors' = 0
    /\ provCall' = CallOk("pos", alt, far, cur)
    /\ polledSince' = TRUE
    /\ LET pos == [alt |-> alt, far |-> far, sess |-> cur]
           done == sessionEnds(direction, alt, far)
           sc == scriptNext(sessions[cur].script, direction, alt, far, done)
       IN  /\ tstate' = IF far THEN tstate ELSE setState(cur, pos, direction)
           /\ sessions' = [sessions EXCEPT ![cur].script = sc,
                                           ![cur].end = IF done THEN "completed" ELSE @]
           /\ tpc' = IF done THEN "discover" ELSE "poll"
           /\ direction' = IF done THEN resumeDirection(direction, TRUE) ELSE direction
    /\ UNCHANGED <<flightObjs, back, snap, snapType>>
    /\ UNCHANGED <<rlVars, mpVars, selVars, uiVars>>

\* backfillAircraftType up to the store into the Flight: it gives up on an
\* ID that is no ICAO24 code or on a failed lookup, and otherwise writes the
\* type into the Flight object it was given.
BackfillLookup(s, ty) ==
    /\ s \in DOMAIN back
    /\ back[s].pc = "start"
    /\ IF Len(flightObjs[s].id) # 6 \/ ty = ""
       THEN /\ back' = [back EXCEPT ![s].pc = "none"]
            /\ UNCHANGED flightObjs
       ELSE /\ flightObjs' = [flightObjs EXCEPT ![s].type = ty]
            /\ back' = [back EXCEPT ![s].pc = "read"]
    /\ UNCHANGED <<tpc, direction, consecutiveErrors, sessions, tstate, provCall,
                   snap, snapType, polledSince>>
    /\ UNCHANGED <<rlVars, mpVars, selVars, uiVars>>

\* backfillAircraftType copies t.state under the read lock.
BackfillRead(s) ==
    /\ s \in DOMAIN back
    /\ back[s].pc = "read"
    /\ back' = [back EXCEPT ![s] = [pc |-> "check", state |-> tstate]]
    /\ UNCHANGED <<tpc, direction, consecutiveErrors, flightObjs, sessions, tstate, provCall,
                   snap, snapType, polledSince>>
    /\ UNCHANGED <<rlVars, mpVars, selVars, uiVars>>

\* backfillAircraftType compares the FlightID of its copy with its own
\* flight's and republishes on a match.
BackfillRepublish(s) ==
    /\ s \in DOMAIN back
    /\ back[s].pc = "check"
    /\ LET currentState == back[s].state
       IN  tstate' = IF /\ currentState.flight # 0
                        /\ flightObjs[currentState.flight].id = flightObjs[s].id
                     THEN setState(s, currentState.pos, currentState.dir)
                     ELSE tstate
    /\ back' = [back EXCEPT ![s] = [pc |-> "none", state |-> ZeroState]]
    /\ UNCHANGED <<tpc, direction, consecutiveErrors, flightObjs, sessions, provCall,
                   snap, snapType, polledSince>>
    /\ UNCHANGED <<rlVars, mpVars, selVars, uiVars>>

\* The AircraftType reachable through a State's Flight pointer.
TypeOf(st) == IF st.flight = 0 THEN "" ELSE flightObjs[st.flight].type

\* What GetState returns: a copy of t.state.
GetStateResult == tstate

\* A reader calls GetState.
GetState ==
    /\ snap' = [taken |-> TRUE, state |-> GetStateResult]
    /\ snapType' = TypeOf(GetStateResult)
    /\ polledSince' = FALSE
    /\ snap' # snap \/ polledSince
    /\ UNCHANGED <<tpc, direction, consecutiveErrors, flightObjs, sessions, back, tstate, provCall>>
    /\ UNCHANGED <<rlVars, mpVars, selVars, uiVars>>

\* The tracker goroutine on its own.
NextTracker ==
    \/ \E e \in ErrMsgs : DiscoverErr(e)
    \/ DiscoverNone
    \/ \E id \in FlightIDs, ty \in AircraftTypes : DiscoverFlight(id, ty)
    \/ Publish
    \/ \E e \in ErrMsgs : PollErr(e)
    \/ \E alt \in Altitudes, far \in BOOLEAN : PollPos(alt, far)

SpecTracker == InitMulti /\ [][NextTracker]_vars

\* The tracker goroutine with providers whose position polls succeed and
\* report an aircraft on the ground or at cruise level, the back-fill
\* goroutines it starts, and a reader.
NextBackfill ==
    \/ \E e \in ErrMsgs : DiscoverErr(e)
    \/ DiscoverNone
    \/ \E id \in FlightIDs, ty \in AircraftTypes : DiscoverFlight(id, ty)
    \/ Publish
    \/ \E alt \in {0, 120}, far \in BOOLEAN : PollPos(alt, far)
    \/ \E s \in 1..MaxSessions, ty \in LookupResults : BackfillLookup(s, ty)
    \/ \E s \in 1..MaxSessions : BackfillRead(s)
    \/ \E s \in 1..MaxSessions : BackfillRepublish(s)
    \/ GetState

SpecBackfill == InitMulti /\ [][NextBackfill]_vars

\* ------------------------------------------------- candidate selection
\* The slices of at most this many elements that sort.Slice sorts by
\* insertion, which keeps equal elements in their order.
maxInsertion == 12

\* The operator fields a provider may fill in: none, the IATA code, the ICAO
\* code, or the name.
Operators ==
    { [iata |-> "", icao |-> "", name |-> ""],
      [iata |-> "UA", icao |-> "", name |-> ""],
      [iata |-> "", icao |-> "UAL", name |-> ""],
      [iata |-> "", icao |-> "", name |-> "United"] }

\* The flights a provider may return.
NearFlights ==
    { [airborne |-> a, ident |-> i, op |-> o] :
        a \in BOOLEAN, i \in {"", "UAL5"}, o \in Operators }

\* An airborne airline flight, as most flights near the airport are.
AirlineFlight ==
    [airborne |-> TRUE, ident |-> "UAL5", op |-> [iata |-> "UA", icao |-> "", name |-> ""]]

\* isAirline: any operator code or name.
isAirline(f) == f.op.iata # "" \/ f.op.icao # "" \/ f.op.name # ""

\* The filter of the candidate loop: airborne, with an identifier. No
\* AirlineFilter is set.
eligible(f) == f.airborne /\ f.ident # ""

\* The indices of the candidates, in the order of the list.
Candidates(list) == {i \in DOMAIN list : eligible(list[i])}

\* less of the sort: an airline flight before a flight that is none; dist
\* is 0 for every candidate.
less(list, a, b) == isAirline(list[a]) /\ ~isAirline(list[b])

\* The candidates no other candidate is less than.
Foremost(list) ==
    {i \in Candidates(list) : ~\E j \in Candidates(list) : less(list, j, i)}

\* The lowest index of a non-empty set of indices.
Lowest(S) == CHOOSE i \in S : \A j \in S : i <= j

\* The candidates that sort.Slice may leave at candidates[0]: the first of
\* the foremost ones when it sorts by insertion, any of them otherwise, as
\* sort.Slice does not keep the order of equal elements.
SortedHeads(list) ==
    IF Cardinality(Candidates(list)) <= maxInsertion
    THEN {Lowest(Foremost(list))}
    ELSE Foremost(list)

\* A provider's answer grows by one flight of any kind.
AddFlight(f) ==
    /\ picked = -1
    /\ Len(nearList) < MaxHead
    /\ nearList' = Append(nearList, f)
    /\ UNCHANGED picked
    /\ UNCHANGED <<rlVars, mpVars, loopVars, uiVars>>

\* A provider's answer grows by one airborne airline flight.
AddAirlineFlight ==
    /\ picked = -1
    /\ Len(nearList) < MaxList
    /\ nearList' = Append(nearList, AirlineFlight)
    /\ UNCHANGED picked
    /\ UNCHANGED <<rlVars, mpVars, loopVars, uiVars>>

\* findEnRouteFlight on the answer: filter, sort, candidates[0] or nil.
Select ==
    /\ picked = -1
    /\ IF Candidates(nearList) = {}
       THEN picked' = 0
       ELSE \E i \in SortedHeads(nearList) : picked' = i
    /\ UNCHANGED nearList
    /\ UNCHANGED <<rlVars, mpVars, loopVars, uiVars>>

NextSelect ==
    \/ \E f \in NearFlights : AddFlight(f)
    \/ AddAirlineFlight
    \/ Select

SpecSelect == InitMulti /\ [][NextSelect]_vars

\* ------------------------------------------------------ RateLimit claims

\* The number of Record-ed timestamps t with lo <= t <= hi.
RecordedIn(lo, hi) ==
    Cardinality({i \in DOMAIN recorded : lo <= recorded[i] /\ recorded[i] <= hi})

\* C1: one caller that calls Record only directly after Allow() = true never
\* has more than maxReqs recorded timestamps inside a trailing window, for
\* every window end s up to now (the closed window [s - window, s], which
\* contains the half-open one).
C1_SingleCallerWithinLimit ==
    \A s \in 0..now : RecordedIn(s - window, s) <= maxReqs

\* C1 witness: the limiter was filled, an older timestamp has expired and the
\* window holds exactly maxReqs timestamps right after a Record.
C1_Witness ==
    /\ ret.op = "Record"
    /\ maxReqs >= 2
    /\ Len(recorded) > maxReqs
    /\ RecordedIn(now - window, now) = maxReqs

\* C2: two or more goroutines sharing the limiter, each calling Record only
\* after its own Allow() = true, never have more than maxReqs recorded
\* timestamps inside a trailing window, for every window end in the run.
C2_ConcurrentWithinLimit ==
    \A s \in 0..MaxTime : s <= now => RecordedIn(s - window + 1, s) <= maxReqs

C4_AllowAfterWait ==
    (ret.op = "Allow" /\ waited.due = ret.at /\ waited.nrec = Len(recorded))
        => ret.val = 1

\* C5: every CapacityPct() reading num/den lies in [0, 1].
C5_CapacityInUnitRange ==
    ret.op = "CapacityPct" => (0 <= ret.val /\ ret.val <= ret.den)

\* C6: Remaining() = max(0, maxReqs - countInWindow), countInWindow being the
\* recorded timestamps not older than `window` at the call; never negative.
C6_RemainingClamped ==
    ret.op = "Remaining" =>
        LET countInWindow == RecordedIn(ret.at - window, ret.at)
        IN  /\ ret.val = (IF maxReqs - countInWindow > 0 THEN maxReqs - countInWindow ELSE 0)
            /\ ret.val >= 0

\* C6 witness: Remaining() was called with more than maxReqs unexpired
\* timestamps and at least one expired timestamp.
C6_Witness ==
    /\ ret.op = "Remaining"
    /\ maxReqs >= 1
    /\ RecordedIn(ret.at - window, ret.at) > maxReqs
    /\ Len(recorded) > RecordedIn(ret.at - window, ret.at)

\* C7 as claimed: between two Record calls that fall in the same window
\* CapacityPct() does not increase.  capRise >= 0 is the timestamp r1 of a
\* Record followed by two readings of which the second is higher; the state
\* right after a later Record r2 then has r2 - r1 >= window.  Stated for the
\* runs that never record more than maxReqs timestamps, where every reading
\* lies in [0, 1].
C7_NoRiseBetweenRecords ==
    (maxReqs > 0 /\ Len(recorded) <= maxReqs /\ ret.op = "Record" /\ capRise >= 0)
        => ret.at - capRise >= window

\* No timestamp counted by the reading `o` has expired at instant t.
NoExpiryBetween(o, t) ==
    \A i \in 1..o.n : recorded[i] >= o.at - window => recorded[i] >= t - window

\* C7 amended: for maxReqs > 0 a CapacityPct() reading is not higher than the
\* previous one unless a recorded timestamp expired between the two (so it
\* does not increase between two Records in one window when no earlier
\* timestamp expires); and once every recorded timestamp has expired the
\* reading is exactly 1.0.
C7_NoRiseWithoutExpiry ==
    /\ [][(maxReqs > 0 /\ capObs.at >= 0 /\ capObs' # capObs
            /\ NoExpiryBetween(capObs, capObs'.at))
          => capObs'.num <= capObs.num]_vars
    /\ [](maxReqs > 0 /\ ret.op = "CapacityPct"
            /\ (\A i \in DOMAIN recorded : recorded[i] < ret.at - window)
          => ret.val = ret.den)

\* C7 witness: a reading of 1.0 after every one of at least two Records has
\* expired, the previous reading having been lower.
C7_Witness ==
    /\ ret.op = "CapacityPct"
    /\ maxReqs > 0
    /\ Len(recorded) >= 2
    /\ \A i \in DOMAIN recorded : recorded[i] < ret.at - window
    /\ ret.val = ret.den
    /\ capRise >= 0

\* C8: WaitDuration() is 0 exactly when Allow() at the same instant is true,
\* and otherwise is (oldest unexpired timestamp + window) - now > 0.  Stated
\* for the calls whose two clock reads coincide; requests is the slice just
\* pruned by that call.
C8_WaitZeroIffAllow ==
    (ret.op = "WaitDuration" /\ ~ret.panic /\ ret.at = ret.at2) =>
        /\ (ret.val = 0) <=> AllowResult(requests)
        /\ ~AllowResult(requests) =>
              (ret.val = (requests[1] + window) - ret.at /\ ret.val > 0)

\* -------------------------------------------------- MultiProvider claims

\* The providers whose answer in this round is at least one flight, no error.
NonEmptyProviders == {i \in Providers : ~beh[i].err.set /\ Len(beh[i].flights) >= 1}

\* The first of them in the aggregator's ordering (the order of the list).
FirstNonEmpty == CHOOSE i \in NonEmptyProviders : \A j \in NonEmptyProviders : i <= j

\* C9: a finished GetFlightsNear round in which some provider answers with at
\* least one flight returns, without error, the flights of the first such
\* provider in the ordering, has passed over every provider before it (each
\* answered an error or an empty list) and leaves activeIdx at that provider.
C9_FirstNonEmptyWins ==
    (mpc = "done" /\ NonEmptyProviders # {}) =>
        /\ result.flights = beh[FirstNonEmpty].flights
        /\ ~result.err.set
        /\ activeIdx = FirstNonEmpty
        /\ \A j \in Providers : j < FirstNonEmpty =>
              /\ \E q \in DOMAIN invoked : invoked[q] = j
              /\ beh[j].err.set \/ Len(beh[j].flights) = 0

\* C9 witness: A errors, B answers no flight, C answers one flight; the round
\* returned C's flight and activeIdx is C.
C9_Witness ==
    /\ mpc = "done"
    /\ beh[0].err.set
    /\ ~beh[1].err.set /\ Len(beh[1].flights) = 0
    /\ ~beh[2].err.set /\ Len(beh[2].flights) = 1
    /\ result.flights = FlightsOf(2, 1)
    /\ activeIdx = 2

\* C10: in one GetFlightsNear round no provider is invoked after a provider
\* that answered at least one flight without error, and no provider is invoked
\* twice.
C10_NoCallAfterWin ==
    \A p, q \in DOMAIN invoked : p < q =>
        /\ invoked[p] # invoked[q]
        /\ ~(~beh[invoked[p]].err.set /\ Len(beh[invoked[p]].flights) >= 1)

\* C10 witness: the round ended on the second provider's flights although a
\* later provider would have answered flights too.
C10_Witness ==
    /\ mpc = "done"
    /\ invoked = <<0, 1>>
    /\ Len(result.flights) >= 1
    /\ \E j \in Providers : j > 1 /\ ~beh[j].err.set /\ Len(beh[j].flights) >= 1

\* C11: after a GetFlightsNear call has made provider C the active provider
\* (C is the provider whose flights that call returned), the first provider
\* invoked by the GetFlightPosition call that follows it is C.
C11_ActiveTriedFirst ==
    (pAfter >= 0 /\ Len(pInvoked) >= 1) => pInvoked[1] = pAfter

\* The active provider is the last of the list, every provider before it
\* could answer, and the call that follows asked the active provider only.
C11_Witness ==
    /\ ppc = "done"
    /\ pAfter = NumProviders - 1
    /\ \A i \in Providers : pbeh[i] = "pos"
    /\ pInvoked = <<NumProviders - 1>>

\* C12: the aggregator never invokes a provider whose limiter's Allow() is
\* false, and a GetFlightsNear round in which every limiter refuses invokes
\* no provider and returns without flights.
C12_NoCallWhenLimited ==
    /\ \A q \in DOMAIN invoked : invoked[q] \notin limited
    /\ (mpc = "done" /\ limited = Providers) =>
          (invoked = << >> /\ result.err.set)

\* The providers that returned an error in this round.
FailedProviders == {i \in Providers : beh[i].err.set}

\* The provider of the highest index among a non-empty set of providers.
LastOf(S) == CHOOSE i \in S : \A j \in S : j <= i

\* C13: when no provider returns a non-empty result, GetFlightsNear returns
\* the error of the last provider that failed if at least one failed, and
\* (nil, nil) if and only if every provider returned an empty list without
\* error.
C13_LastErrorOrNil ==
    (mpc = "done" /\ NonEmptyProviders = {}) =>
        /\ result.flights = << >>
        /\ FailedProviders # {} => result.err = ErrOf(LastOf(FailedProviders))
        /\ result = NoResult <=> FailedProviders = {}

\* Two providers failed, the second of them is followed by one that returned
\* an empty list, and the round returned the error of the second.
C13_Witness ==
    /\ mpc = "done"
    /\ NonEmptyProviders = {}
    /\ Cardinality(FailedProviders) >= 2
    /\ LastOf(FailedProviders) < NumProviders - 1
    /\ result.err = ErrOf(LastOf(FailedProviders))

\* C14: with GetFlightsNear and GetFlightPosition running concurrently, no
\* GetFlightPosition call invokes the same provider twice, and a call that
\* exhausted the list has invoked every provider.
C14_NoRepeatNoSkip ==
    /\ \A q, r \in DOMAIN pInvoked : q # r => pInvoked[q] # pInvoked[r]
    /\ (ppc = "done" /\ ~presult.ok) =>
          {pInvoked[q] : q \in DOMAIN pInvoked} = Providers


\* ------------------------------------------------------- Tracker claims

\* The sessions that ended by completion.
Completed == {k \in DOMAIN sessions : sessions[k].end = "completed"}

Polled == provCall.kind = "pos" /\ provCall.ok

\* The altitude test of the claim: above 100 when Departing, at or below 0
\* when Arriving.
Threshold(dir, alt) ==
    \/ dir = "Departing" /\ alt > 100
    \/ dir = "Arriving" /\ alt <= 0

\* C16 as stated: a session is completed by a successful poll if and only if
\* the poll's altitude passes the threshold of the session's direction, and
\* not before.
C16_CompletesAtThreshold ==
    Polled => (sessions[cur].end = "completed"
                  <=> Threshold(sessions[cur].dir, provCall.alt))

\* C16 amended: a session is completed by a successful poll if and only if the
\* poll's altitude passes the threshold of the session's direction or the
\* poll places the aircraft beyond the maximum distance; a session whose
\* readings are those of the example, none of them beyond the maximum
\* distance, is still tracked after the first and the second reading and is
\* back in discovery after the third.
C16_CompletesAtThresholdOrFar ==
    /\ Polled => (sessions[cur].end = "completed"
                     <=> (Threshold(sessions[cur].dir, provCall.alt) \/ provCall.far))
    /\ \A k \in DOMAIN sessions :
          /\ sessions[k].script \in {1, 2} => (sessions[k].end = "running" /\ tpc = "poll")
          /\ sessions[k].script = 3 => sessions[k].end = "completed"

\* A Departing session read 50, 80, 120 and the Arriving session after it
\* read 40, 10, 0; both completed and the tracker is back in discovery.
C16_Witness ==
    /\ Len(sessions) >= 2
    /\ sessions[1].dir = "Departing" /\ sessions[1].script = 3
    /\ sessions[2].dir = "Arriving" /\ sessions[2].script = 3
    /\ sessions[2].end = "completed"
    /\ Polled /\ provCall.alt = 0
    /\ tpc = "discover"

\* C17: in the State that GetState returns, a Flight and a Position that are
\* both present belong to the same tracking session.
C17_SameSession ==
    (GetStateResult.flight # 0 /\ GetStateResult.pos.sess # 0) =>
        GetStateResult.pos.sess = GetStateResult.flight

\* C18: as long as the poll loop has not acted since a reader's GetState
\* call, a second GetState call returns the State the first returned.
C18_IdenticalWithoutPoll ==
    (snap.taken /\ ~polledSince) => GetStateResult = snap.state

\* C19: the AircraftType a reader reaches through the Flight of a State it
\* got from GetState is the one it reached when it got the State.
C19_PointInTime ==
    snap.taken => TypeOf(snap.state) = snapType

\* The places of the tracker loop from which its next step is a provider
\* call.
ProviderCallSites == {"discover", "poll"}

\* C20: every step on which GetFlightsNear or GetFlightPosition returns an
\* error to the tracker writes that error to State.Error and leaves the loop
\* at a place from which its next step is a further provider call.
C20_ErrorAbsorbed ==
    [][(\E e \in ErrMsgs : DiscoverErr(e) \/ PollErr(e)) =>
          /\ tstate'.error = provCall'.err
          /\ tstate'.error \in ErrMsgs
          /\ tpc' \in ProviderCallSites]_vars

\* The first session was lost at the error ceiling, and the discovery that
\* followed failed too: its error is the published one.
C20_Witness ==
    /\ Len(sessions) = 1
    /\ sessions[1].end = "lost"
    /\ consecutiveErrors = maxErrors
    /\ provCall.kind = "near" /\ ~provCall.ok
    /\ tstate.error = provCall.err

\* C21: tracking of a flight is aborted only when the number of consecutive
\* position errors exceeds 30, and a successful poll resets the count to
\* zero.
C21_AbortBeyondCeiling ==
    /\ (sessions # << >> /\ sessions[cur].end = "lost") => consecutiveErrors > 30
    /\ Polled => consecutiveErrors = 0

\* C22: a session that was lost at the error ceiling leaves the tracker in
\* discovery with the Direction of the lost session, and the session found
\* next has that Direction.
C22_LostKeepsDirection ==
    \A k \in DOMAIN sessions : sessions[k].end = "lost" =>
        /\ k = cur => (tpc = "discover" /\ direction = sessions[k].dir)
        /\ k + 1 \in DOMAIN sessions => sessions[k + 1].dir = sessions[k].dir

\* A Departing session was lost and the session found after it is Departing.
C22_Witness ==
    /\ Len(sessions) >= 2
    /\ sessions[1].dir = "Departing" /\ sessions[1].end = "lost"
    /\ sessions[2].dir = "Departing"

\* The sample of the latest successful poll, as a Position.
PolledSample == [alt |-> provCall.alt, far |-> provCall.far, sess |-> provCall.sess]

\* C23: when a successful poll has completed the session, the published
\* State holds that poll's sample as Position with the session's Flight and
\* Direction, and holds it until the tracker's next provider call.
C23_FinalSamplePublished ==
    (Polled /\ sessions[cur].end = "completed") =>
        /\ tstate.pos = PolledSample
        /\ tstate.flight = cur
        /\ tstate.dir = sessions[cur].dir

C25_PublishedBeforeFirstPoll ==
    (tpc = "poll" /\ provCall.kind = "near") =>
        /\ tstate.flight = cur
        /\ tstate.pos = NoPos
        /\ tstate.dir = direction
        /\ tstate.error = ""

\* The second session was published after the first was lost, which had left
\* an error in the State.
C25_Witness ==
    /\ cur = 2
    /\ sessions[1].end = "lost"
    /\ tpc = "poll" /\ provCall.kind = "near"
    /\ tstate.flight = 2 /\ tstate.pos = NoPos /\ tstate.error = ""

\* C26: after a successful poll that did not end the session the published
\* State holds that poll's sample as Position, with the tracked Flight and
\* the Direction.
C26_SamplePublished ==
    (Polled /\ sessions[cur].end = "running") =>
        /\ tstate.pos.alt = provCall.alt
        /\ tstate.pos.sess = cur
        /\ tstate.flight = cur
        /\ tstate.dir = direction

\* The second reading of a Departing session, 80 after 50, is the published
\* Position.
C26_Witness ==
    /\ Polled /\ sessions[cur].end = "running"
    /\ sessions[cur].dir = "Departing" /\ sessions[cur].script = 2
    /\ tstate.pos.alt = 80

\* The session whose State the tracker published last.
LastPublished == IF tpc = "publish" THEN cur - 1 ELSE cur

\* C27: once the tracker has published a State for a newer flight, the
\* published Flight is never again that of an earlier session.
C27_StaleDiscarded ==
    tstate.flight >= LastPublished

\* A flight has an operator code or name.
HasOperator(f) == f.op.iata # "" \/ f.op.icao # "" \/ f.op.name # ""

\* The airborne flights with an identifier in the provider's answer.
Eligible == {i \in DOMAIN nearList : nearList[i].airborne /\ nearList[i].ident # ""}

\* Those of them that rank as the chosen flight does.
RankedAs(i) == {j \in Eligible : HasOperator(nearList[j]) <=> HasOperator(nearList[i])}

\* C28: discovery returns nil exactly when no flight is airborne with an
\* identifier; otherwise the chosen flight is airborne with an identifier,
\* has an operator code or name if any eligible flight has one, and is the
\* first in the provider's order of the eligible flights that rank as it
\* does.
C28_SelectsFirstOfBestRank ==
    picked >= 0 =>
        /\ picked = 0 <=> Eligible = {}
        /\ picked # 0 =>
              /\ picked \in Eligible
              /\ (\E j \in Eligible : HasOperator(nearList[j])) => HasOperator(nearList[picked])
              /\ \A j \in RankedAs(picked) : picked <= j

\* C29: in a GetFlightsNear round the providers are invoked in order of
\* descending remaining capacity, and no provider whose capacity is zero is
\* invoked.
C29_DescendingCapacity ==
    /\ \A p, q \in DOMAIN invoked :
          p < q => capLeft[invoked[p]] >= capLeft[invoked[q]]
    /\ \A q \in DOMAIN invoked : capLeft[invoked[q]] > 0

\* The providers a GetFlightPosition call has invoked.
PosInvoked == {pInvoked[q] : q \in DOMAIN pInvoked}

\* C30: in a GetFlightPosition call made on its own, the active provider is
\* invoked first and no provider is invoked twice; a call that returns an
\* error has invoked every provider and none had a position; a call that
\* returns a position returns that of the provider it invoked last, and that
\* provider is the active one afterwards.
C30_EachOnceActiveUpdated ==
    /\ Cardinality(PosInvoked) = Len(pInvoked)
    /\ ppc = "loop" => (Len(pInvoked) >= 1 /\ pInvoked[1] = activeIdx)
    /\ (ppc = "done" /\ ~presult.ok) =>
          /\ presult.err.set
          /\ PosInvoked = Providers
          /\ \A i \in Providers : pbeh[i] # "pos"
    /\ (ppc = "done" /\ presult.ok) =>
          /\ pbeh[presult.prov] = "pos"
          /\ presult.prov = pInvoked[Len(pInvoked)]
          /\ activeIdx = presult.prov

\* The active provider, in the middle of the list, failed; the fallback asked
\* the first provider, which had no position, and found one at the last.
C30_Witness ==
    /\ ppc = "done" /\ presult.ok
    /\ pInvoked = <<1, 0, 2>>
    /\ pbeh[1] = "err" /\ pbeh[0] = "nil"
    /\ activeIdx = 2

\* C36: a WaitDuration call returns a duration, it does not fail, whatever
\* the limiter was built with and whatever was recorded.
C36_WaitDurationReturns ==
    ret.op = "WaitDuration" => ~ret.panic

\* C37: a finished GetFlightPosition call has returned either a position and
\* no error or no position and an error, never neither, whatever the
\* providers answered ((nil, nil) included) and however many providers the
\* aggregator has, none included; so the caller that tests the error first
\* always has a position to read.
C37_PositionOrError ==
    ppc = "done" => (presult.ok <=> ~presult.err.set)

\* An aggregator without providers returned "no position available".
C37_Witness ==
    /\ nprov = 0
    /\ ppc = "done"
    /\ ~presult.ok /\ presult.err = NoPositionErr

\* A finished GetFlightsNear call that brought flights.
NearSucceeded == mpc = "done" /\ ~result.err.set /\ result.flights # << >>

\* C38: the active index is an index of the provider list whenever the list
\* is not empty, and it changes only in the step by which a GetFlightsNear
\* call returns flights or a GetFlightPosition call returns a position: a
\* call that returns an error or nothing has left it as it was.
C38_ActiveIdxValidAndKept ==
    /\ [](nprov > 0 => activeIdx \in 0..(nprov - 1))
    /\ [][activeIdx' # activeIdx =>
             \/ (mpc = "near" /\ NearSucceeded')
             \/ (ppc = "loop" /\ ppc' = "done" /\ presult'.ok)]_vars

\* A GetFlightsNear call returned an error while the last provider of the
\* list was the active one, and it still is.
C38_Witness ==
    /\ nprov = NumProviders
    /\ mpc = "done" /\ result.err.set
    /\ activeIdx = NumProviders - 1

\* A step in which the tracker records a provider error with setError.
ErrorStep == \E e \in ErrMsgs : DiscoverErr(e) \/ PollErr(e)

\* A step in which the tracker publishes a State with setState.
PublishStep ==
    \/ Publish
    \/ \E alt \in Altitudes : PollPos(alt, FALSE)

\* C40: recording an error leaves the published Flight, Position and
\* Direction as they were and puts the message into Error; every publish
\* with setState leaves Error empty.
C40_ErrorOnlyTouchesError ==
    [][/\ ErrorStep =>
            /\ tstate'.flight = tstate.flight
            /\ tstate'.pos = tstate.pos
            /\ tstate'.dir = tstate.dir
            /\ tstate'.error = provCall'.err
       /\ PublishStep => tstate'.error = ""]_vars

\* A position error was recorded over a published sample at altitude 50,
\* which is still there.
C40_Witness ==
    /\ provCall.kind = "pos" /\ ~provCall.ok
    /\ tstate.error = "timeout"
    /\ tstate.flight = cur /\ tstate.pos.alt = 50 /\ tstate.pos.sess = cur

\* C39: as long as the State published is that of the session polled last,
\* the sample it carries, if it is one of that session, is the sample of the
\* session's latest published poll, never that of an earlier poll.
C39_PublishedInPollOrder ==
    (Polled /\ ~provCall.far /\ tstate.flight = provCall.sess /\ tstate.pos.sess = provCall.sess) =>
        tstate.pos = PolledSample

\* ------------------------------------------------------------- display
\* Game.Update and Game.deadReckon.  Latitudes and longitudes are integers
\* in a unit of length chosen so that an aircraft at 1 knot covers one unit
\* in a second (the factors 1.852 / 3600, 1 / earthRadius, 180 / Pi and
\* 1 / cos(anchorLat) are part of the unit); headings are multiples of 90
\* degrees, whose cosine and sine are 0, 1 or -1; displayed speed is in
\* 1/100000 mph.  A blend rounds its step away from zero: the model's unit
\* is far above the resolution of float64, at which the code's value stops
\* moving.
trailCap == 2000

trailKeep == 1500

extrapolationCap == 30

\* blend of deadReckon and metricBlend of Update, in percent.
blend == 15

metricBlend == 8

\* The flights the tracker may publish, by FlightID.
UiFlights == {"a0b1c2", "c0ffee"}

\* The headings a position may carry: east, west, or none.
Headings == {90, 270, NilHeading}

\* The places a poll may report: latitude, longitude and altitude.
Places == { [lat |-> 100, lon |-> 50, alt |-> 30], [lat |-> 200, lon |-> 50, alt |-> 50] }

\* The positions a poll may bring: a place, a ground speed of 0 or 10
\* knots, a heading or none.
Samples ==
    { [set |-> TRUE, lat |-> pl.lat, lon |-> pl.lon, gs |-> s, alt |-> pl.alt, hdg |-> h] :
        pl \in Places, s \in {0, 10}, h \in Headings }

cosOf(h) == IF h = 0 THEN 1 ELSE IF h = 180 THEN -1 ELSE 0

sinOf(h) == IF h = 90 THEN 1 ELSE IF h = 270 THEN -1 ELSE 0

\* n / d rounded away from zero, d > 0.
RoundAway(n, d) == IF n >= 0 THEN (n + d - 1) \div d ELSE -((d - 1 - n) \div d)

\* x += (target - x) * pct / 100
blendTo(x, target, pct) == x + RoundAway((target - x) * pct, 100)

\* float64(Groundspeed) * 1.15078, in 1/100000 mph.
toMph(gs) == gs * 115078

\* float64(Altitude) * 100: hundreds of feet to feet.
toFeet(alt) == alt * 100

\* deadReckon extrapolating without a limit.
capDt_Unlimited(dt) == IF dt < 0 THEN 0 ELSE dt

\* The elapsed time deadReckon projects over: not negative, and at most the
\* cap.
capDt(dt) == IF dt < 0 THEN 0 ELSE IF dt > extrapolationCap THEN extrapolationCap ELSE dt

\* The position deadReckon projects from the anchor of gm at time t.
Project(gm, t) ==
    LET dist == gm.drSpeed * capDt(t - gm.anchorTime)
    IN  [lat |-> gm.anchorLat + dist * cosOf(gm.drHeading),
         lon |-> gm.anchorLon + dist * sinOf(gm.drHeading)]

\* deadReckon returns early without an anchor or without speed.
reckons(gm) == gm.hasAnchor /\ gm.drSpeed > 0

\* deadReckon: the display position goes a fraction of the way to the
\* projection.
deadReckon(gm, t) ==
    IF ~reckons(gm) THEN gm
    ELSE LET proj == Project(gm, t)
         IN  [gm EXCEPT !.interpLat = blendTo(gm.interpLat, proj.lat, blend),
                        !.interpLon = blendTo(gm.interpLon, proj.lon, blend)]

\* The trail cut to its oldest points.
trimTrail_Oldest(t) == IF Len(t) > trailCap THEN SubSeq(t, 1, trailKeep) ELSE t

\* The cap of the trail: above trailCap points the latest trailKeep stay.
trimTrail(t) ==
    IF Len(t) > trailCap THEN SubSeq(t, Len(t) - trailKeep + 1, Len(t)) ELSE t

\* The new-flight branch of Update: anchor and display snap to the sample,
\* the trail is emptied, the animated metrics snap; the heading only if the
\* sample has one.
snapTo(gm, st, t) ==
    [gm EXCEPT !.anchorLat = st.pos.lat, !.anchorLon = st.pos.lon,
               !.interpLat = st.pos.lat, !.interpLon = st.pos.lon,
               !.anchorTime = t, !.hasAnchor = TRUE,
               !.lastFlightID = st.flight,
               !.trailPoints = << >>, !.trailTick = 0,
               !.animSpeed = toMph(st.pos.gs),
               !.animAltitude = toFeet(st.pos.alt),
               !.animHeading = IF st.pos.hdg # NilHeading THEN st.pos.hdg ELSE @]

\* The new-position branch of Update.
reanchor(gm, st, t) ==
    [gm EXCEPT !.anchorLat = st.pos.lat, !.anchorLon = st.pos.lon,
               !.anchorTime = t, !.hasAnchor = TRUE]

\* The velocity used for dead reckoning: the heading only if the sample has
\* one.
velocity(gm, st) ==
    [gm EXCEPT !.drSpeed = st.pos.gs,
               !.drHeading = IF st.pos.hdg # NilHeading THEN st.pos.hdg ELSE @]

\* The animated heading goes a fraction of the shorter way round to the
\* target and is brought back into [0, 360).
turnTo(h, target) ==
    LET d0 == target - h
        hdgDiff == IF d0 > 180 THEN d0 - 360 ELSE IF d0 < -180 THEN d0 + 360 ELSE d0
        h1 == h + RoundAway(hdgDiff * metricBlend, 100)
    IN  IF h1 < 0 THEN h1 + 360 ELSE IF h1 >= 360 THEN h1 - 360 ELSE h1

\* The animated metrics go a fraction of the way to their targets.
animate(gm, st) ==
    [gm EXCEPT !.animSpeed = blendTo(@, toMph(st.pos.gs), metricBlend),
               !.animAltitude = blendTo(@, toFeet(st.pos.alt), metricBlend),
               !.animHeading = turnTo(@, gm.drHeading)]

\* Every third tick the display position, if its latitude is not 0, joins
\* the trail, which is then cut; each point remembers for which flight and
\* at which tick it was recorded (history).
capture(gm, st) ==
    LET tick == gm.trailTick + 1
        pt == [lat |-> gm.interpLat, lon |-> gm.interpLon, of |-> st.flight, tick |-> tick]
    IN  [gm EXCEPT !.trailTick = tick,
                   !.trailPoints = IF tick % 3 = 0 /\ gm.interpLat # 0
                                   THEN trimTrail(Append(@, pt)) ELSE @]

flightChanged(gm, st) == st.flight # "" /\ st.flight # gm.lastFlightID

posChanged(gm, st) == st.pos.lat # gm.anchorLat \/ st.pos.lon # gm.anchorLon

\* The Game after an Update that got the State st at time t.
Updated(gm, st, t) ==
    IF ~st.pos.set THEN gm
    ELSE LET g1 == IF flightChanged(gm, st) THEN snapTo(gm, st, t)
                   ELSE IF posChanged(gm, st) THEN reanchor(gm, st, t)
                   ELSE gm
             g2 == velocity(g1, st)
             g3 == animate(g2, st)
             g4 == deadReckon(g3, t)
         IN  capture(g4, st)

\* Where the headings of the Game came from after that Update: the flight
\* whose sample set drHeading, and the flight whose data animHeading was
\* last set from or moved towards.
HeadingsFrom(h, gm, st) ==
    IF ~st.pos.set THEN h
    ELSE LET dr == IF st.pos.hdg # NilHeading THEN st.flight ELSE h.drHeadingOf
             an0 == IF flightChanged(gm, st) /\ st.pos.hdg # NilHeading
                    THEN st.flight ELSE h.animHeadingOf
             before == IF flightChanged(gm, st) THEN snapTo(gm, st, 0).animHeading
                       ELSE gm.animHeading
             target == velocity(gm, st).drHeading
         IN  [h EXCEPT !.drHeadingOf = dr,
                       !.animHeadingOf = IF before # target THEN dr ELSE an0]

\* One tick: Update reads the published State and brings the Game up to
\* it. The ticks that found a position are counted, up to `limit`.
Update(limit) ==
    /\ published.pos.set => hist.updates < limit
    /\ g' = Updated(g, published, now)
    /\ hist' = [HeadingsFrom(hist, g, published) EXCEPT
                   !.seen = published,
                   !.updates = IF published.pos.set THEN @ + 1 ELSE @,
                   !.proj = IF published.pos.set /\ reckons(g')
                            THEN [set |-> TRUE, lat |-> Project(g', now).lat,
                                  lon |-> Project(g', now).lon, at |-> now]
                            ELSE NoProj]
    /\ UNCHANGED published
    /\ UNCHANGED <<rlVars, mpVars, loopVars, selVars>>

\* The tracker publishes a newly found flight, without a position.
TrackerPublishesFlight(f) ==
    /\ published' = [flight |-> f, pos |-> NilPos]
    /\ UNCHANGED <<g, hist>>
    /\ UNCHANGED <<rlVars, mpVars, loopVars, selVars>>

\* The tracker publishes a poll's sample for the flight it tracks.
TrackerPublishesSample(p) ==
    /\ published.flight # ""
    /\ published' = [published EXCEPT !.pos = p]
    /\ UNCHANGED <<g, hist>>
    /\ UNCHANGED <<rlVars, mpVars, loopVars, selVars>>

\* The clock advances between two ticks of the display.
UiTick ==
    /\ now < MaxElapsed
    /\ now' = now + 1
    /\ UNCHANGED <<rlRest, mpVars, trVars>>

\* The display beside a tracker that finds flights and polls them.
NextUI ==
    \/ \E f \in UiFlights : TrackerPublishesFlight(f)
    \/ \E p \in Samples : TrackerPublishesSample(p)
    \/ Update(MaxTicks)

SpecUI == InitMulti /\ [][NextUI]_vars

\* The display beside a tracker that follows one flight whose polls report
\* it moving east, while the clock runs; after MaxTime seconds the tracker
\* publishes nothing more.
NextReckon ==
    \/ now < MaxTime /\ TrackerPublishesFlight("a0b1c2")
    \/ now < MaxTime /\ \E p \in {s \in Samples : s.gs > 0 /\ s.hdg = 90} : TrackerPublishesSample(p)
    \/ UiTick
    \/ Update(MaxTicks)

SpecReckon == InitMulti /\ [][NextReckon]_vars

\* A flight reported standing at one place.
Parked == [flight |-> "a0b1c2",
           pos |-> [set |-> TRUE, lat |-> 100, lon |-> 50, gs |-> 0, alt |-> 30,
                    hdg |-> NilHeading]]

\* The Game after n Updates, n >= 1, that all found a new Game's tracker
\* publishing st, a standing flight, before the trail was ever cut: the
\* first Update made the Game what it is, every one counted a tick, every
\* third recorded the same point.
GameAfter(st, n) ==
    LET first == Updated(NewGame, st, 0)
        pt(k) == [lat |-> first.interpLat, lon |-> first.interpLon,
                  of |-> st.flight, tick |-> 3 * k]
    IN  [first EXCEPT !.trailTick = n,
                      !.trailPoints = [k \in 1..(n \div 3) |-> pt(k)]]

\* The display has run for TrailStart ticks beside a tracker that follows
\* a standing flight.
InitTrail ==
    /\ InitMP
    /\ InitTracker
    /\ published = Parked
    /\ g = GameAfter(Parked, TrailStart)
    /\ hist = [HeadingsFrom(NoHist, NewGame, Parked) EXCEPT
                  !.seen = Parked, !.updates = TrailStart]
    /\ now = 0
    /\ NewRateLimit(0, 1)
    /\ recorded = << >>
    /\ pc = [t \in Threads |-> "idle"]
    /\ ret = NoRet
    /\ waited = [due |-> -1, nrec |-> 0]
    /\ capObs = [num |-> 0, at |-> -1, n |-> 0, r |-> -1]
    /\ capRise = -1

\* The display goes on running beside that tracker, which polls the flight
\* at the same place and may find it anew.
NextTrail ==
    \/ TrackerPublishesFlight(Parked.flight)
    \/ TrackerPublishesSample(Parked.pos)
    \/ Update(MaxTrailTicks)

SpecTrail == InitTrail /\ [][NextTrail]_vars

\* C31: once an Update has seen the published State, every point of the
\* trail was recorded for the flight of that State; so too while the flight
\* is published without a position.
C31_TrailOfPublishedFlight ==
    hist.seen = published =>
        \A i \in DOMAIN g.trailPoints : g.trailPoints[i].of = published.flight

\* An Update that finds a position whose flight is not the one the Game
\* followed.
SeesNewFlight ==
    /\ hist'.updates = hist.updates + 1
    /\ published.flight # g.lastFlightID

\* C32: the Update that first sees a new flight's sample puts anchor and
\* display at the sample, and leaves displayed speed and altitude at the
\* sample's values and both headings free of the previous flight: each is
\* the new flight's or was never set.
C32_NewFlightResetsAll ==
    [][SeesNewFlight =>
          /\ g'.anchorLat = published.pos.lat /\ g'.anchorLon = published.pos.lon
          /\ g'.interpLat = published.pos.lat /\ g'.interpLon = published.pos.lon
          /\ g'.animSpeed = published.pos.gs * 115078
          /\ g'.animAltitude = published.pos.alt * 100
          /\ hist'.drHeadingOf \in {"", published.flight}
          /\ hist'.animHeadingOf \in {"", published.flight}]_vars

\* C33: the trail never holds more than 2000 points, and a point recorded
\* into a trail of 2000 leaves the 1500 latest points, the new one last, in
\* their order.
C33_TrailCapped ==
    /\ [](Len(g.trailPoints) <= 2000)
    /\ [][(Len(g.trailPoints) = 2000 /\ g'.trailTick = g.trailTick + 1
              /\ g'.trailTick % 3 = 0 /\ g'.interpLat # 0) =>
             /\ Len(g'.trailPoints) = 1500
             /\ \A i \in 1..1499 : g'.trailPoints[i] = g.trailPoints[i + 501]
             /\ g'.trailPoints[1500].tick = g'.trailTick
             /\ g'.trailPoints[1500].lat = g'.interpLat
             /\ g'.trailPoints[1500].lon = g'.interpLon]_vars

\* The trail was cut: it ends with the point of tick 6003, the 2001st, and
\* begins with the 502nd.
C33_Witness ==
    /\ Len(g.trailPoints) = 1500
    /\ g.trailPoints[1500].tick = 6003
    /\ g.trailPoints[1].tick = 3 * 502

\* The lesser of two numbers.
Min(a, b) == IF a < b THEN a ELSE b

\* C34: a projection made by deadReckon lies from the anchor, in the
\* direction of the heading, at the distance speed times the lesser of the
\* time since the anchor and 30 s.
C34_ProjectionCapped ==
    hist.proj.set =>
        LET d == g.drSpeed * Min(hist.proj.at - g.anchorTime, 30)
        IN  /\ hist.proj.lat = g.anchorLat + d * cosOf(g.drHeading)
            /\ hist.proj.lon = g.anchorLon + d * sinOf(g.drHeading)

\* 31 s after the anchor an aircraft at 10 knots heading east is projected
\* 300 units east of it.
C34_Witness ==
    /\ hist.proj.set
    /\ hist.proj.at - g.anchorTime = 31
    /\ g.drSpeed = 10 /\ g.drHeading = 90
    /\ hist.proj.lon = g.anchorLon + 300 /\ hist.proj.lat = g.anchorLat

\* The distance between the display position of gm and a place.
Off(gm, place) ==
    LET a == gm.interpLat - place.lat
        b == gm.interpLon - place.lon
    IN  (IF a < 0 THEN -a ELSE a) + (IF b < 0 THEN -b ELSE b)

\* An Update that finds a position of the flight the Game follows.
SeesSameFlight ==
    /\ hist'.updates = hist.updates + 1
    /\ published.flight = g.lastFlightID

\* C35: an Update that sees a sample of the same flight has the sample's
\* position as anchor afterwards, and if the display position was not at the
\* position projected from that anchor, the Update has brought it closer to
\* it, whatever the ground speed.
C35_DisplayFollowsAnchor ==
    [][SeesSameFlight =>
          /\ g'.anchorLat = published.pos.lat /\ g'.anchorLon = published.pos.lon
          /\ Off(g, Project(g', now)) # 0 =>
                Off(g', Project(g', now)) < Off(g, Project(g', now))]_vars

====
